---- MODULE Spec2Model ----
(***************************************************************************)
(* A model of the trends-story run supervisor (run_and_sync.py: lockfile,  *)
(* pipeline execution, git sync) and of the generation-service gateway     *)
(* (creating-stories.py: ws_send_prompt, call_api_with_retry).             *)
(*                                                                         *)
(* Spec        : two invocations of main() on the same base directory,     *)
(*               sharing the lockfile, the clock and the git work tree.    *)
(* GatewaySpec : one caller of call_api_with_retry against a generation    *)
(*               service that answers, closes or fails on each attempt.    *)
(* PipelineSpec: executions of creating-stories.py one after the other on  *)
(*               one store (save_to_database, create_stories).             *)
(* ScenarioSpec: one execution on a three-topic batch in an empty store.   *)
(* QuotaSpec   : one execution on a batch about as large as the per-run    *)
(*               quota, in an empty store.                                 *)
(* RaceSpec    : two executions of creating-stories.py at the same time.   *)
(* SitemapSpec : generate_sitemap on a sitemap.xml and on store dates that *)
(*               change between its runs.                                  *)
(* SanitizeSpec: calls of sanitize_filename on names up to and beyond the  *)
(*               length limit.                                             *)
(* ImageSpec   : calls of create_image against an image service that sends *)
(*               events and previews, or fails.                            *)
(* GitCommandSpec: one call of run_git_command for each command of the     *)
(*               sync phase and each sequence of exit statuses.            *)
(***************************************************************************)
EXTENDS Integers, Sequences, FiniteSets, TLC

VARIABLES now, lock, pc, run, repo, overlap, gw,
          topics, narratives, images, today, pl,
          sitemap, dbDates, parseLog, fname, render, git

vars == <<now, lock, pc, run, repo, overlap, gw,
          topics, narratives, images, today, pl, sitemap, dbDates, parseLog, fname,
          render, git>>
supVars == <<now, lock, pc, run, repo, overlap>>
pipeVars == <<topics, narratives, images, today, pl>>
siteVars == <<sitemap, dbDates, parseLog>>
appVars == <<pipeVars, siteVars, fname, render, git>>

(***************************************************************************)
(* Bounds of the model                                                     *)
(***************************************************************************)
\* the clock runs from 0 to MaxTime minutes, in steps of TickStep minutes
MaxTime == 45
TickStep == 20
\* local commits that may pile up ahead of origin/main
MaxUnpushed == 2

\* the process ids of the invocations of main() that may overlap; an
\* invocation that has ended may be started again
Procs == {1, 2}

(***************************************************************************)
(* Program constants                                                       *)
(***************************************************************************)
LOCKFILE_STALE_MINUTES == 30
SYNC_MAX_RETRIES == 3
RETRY_BASE_DELAY == 2
EXIT_SUCCESS == 0
EXIT_CONFIG_ERROR == 1
EXIT_SCRIPT_FAILURE == 2
EXIT_GIT_FAILURE == 3
MAX_RETRIES == 4

(***************************************************************************)
(* run_and_sync.py : the lockfile                                          *)
(***************************************************************************)
\* LOCKFILE does not exist
NoLock == [exists |-> FALSE, mtime |-> 0, pid |-> 0]

\* lock_age_minutes of check_lockfile: (time.time() - st_mtime) / 60
LockAgeMinutes(l, t) == t - l.mtime

IsStaleNever(lock_age_minutes) == FALSE

\* the staleness test of check_lockfile
IsStale(lock_age_minutes) == lock_age_minutes > LOCKFILE_STALE_MINUTES

\* what check_lockfile sees: "absent", "stale" (unlinks, returns True) or
\* "recent" (returns False)
LockView(l, t) ==
    IF ~l.exists THEN "absent"
    ELSE IF IsStale(LockAgeMinutes(l, t)) THEN "stale"
    ELSE "recent"

\* LOCKFILE.write_text(str(os.getpid())) at time t
WrittenLock(p, t) == [exists |-> TRUE, mtime |-> t, pid |-> p]

RemoveLockfileForgets(l) == l

\* remove_lockfile: unlink LOCKFILE if it exists
RemoveLockfile(l) == NoLock

(***************************************************************************)
(* run_and_sync.py : run_git_command                                       *)
(***************************************************************************)
\* exit statuses of the successive attempts of one command (0 = success; a
\* timeout or an exception counts as a failed attempt)
AttemptOutcomes == [1..SYNC_MAX_RETRIES -> {0, 1}]

RECURSIVE GitAttempt(_, _, _, _)
GitAttempt(outs, retry, attempt, slept) ==
    LET max_attempts == IF retry THEN SYNC_MAX_RETRIES ELSE 1
        slept2 == IF attempt > 0
                  THEN Append(slept, RETRY_BASE_DELAY * 2^(attempt - 1))
                  ELSE slept
    IN  IF attempt >= max_attempts
        THEN [ok |-> FALSE, attempts |-> attempt, slept |-> slept]
        ELSE IF outs[attempt + 1] = 0
        THEN [ok |-> TRUE, attempts |-> attempt + 1, slept |-> slept2]
        ELSE IF attempt < max_attempts - 1 /\ retry
        THEN GitAttempt(outs, retry, attempt + 1, slept2)
        ELSE [ok |-> FALSE, attempts |-> attempt + 1, slept |-> slept2]

RunGitCommand(outs, retry) == GitAttempt(outs, retry, 0, <<>>)

\* the commands perform_git_operations runs through run_git_command
GitCommands == {"config user.name", "config user.email", "remote set-url",
                "commit", "fetch", "rebase --abort", "push"}
\* the retry argument at the call sites of perform_git_operations
RetryAlways(command) == TRUE
Retry(command) == command \in {"fetch", "push"}

(***************************************************************************)
(* run_and_sync.py : main and perform_git_operations                       *)
(***************************************************************************)
\* the locals of one invocation of main(), and what it has done so far
FreshRun ==
    [saw |-> "none", reclaimed |-> 0, created |-> FALSE, config |-> "none",
     script |-> "none", sync |-> "none", diff |-> "none", committed |-> FALSE,
     fetch |-> "none", rebase |-> "none", cmds |-> {}, ret |-> EXIT_SUCCESS]

SyncPcs == {"git_setup", "git_stage", "git_commit", "git_fetch", "git_rebase", "git_push"}
\* between a successful create_lockfile and the finally block
HoldingPcs == {"config", "script"} \cup SyncPcs
\* inside the try block of main
TryPcs == {"check", "create"} \cup HoldingPcs
\* main has been entered and has neither returned nor been killed
ActivePcs == TryPcs \cup {"finally"}

AfterScriptAlwaysSync(script_success) == "git_setup"

\* main: perform_git_operations only if the script succeeded
AfterScript(script_success) == IF script_success THEN "git_setup" ELSE "finally"

ScriptExit(script_success) == IF script_success THEN EXIT_SUCCESS ELSE EXIT_SCRIPT_FAILURE

SyncExitAsScriptFailure(git_success) ==
    IF git_success THEN EXIT_SUCCESS ELSE EXIT_SCRIPT_FAILURE

\* main: the exit code after perform_git_operations
SyncExit(git_success) == IF git_success THEN EXIT_SUCCESS ELSE EXIT_GIT_FAILURE

AfterDiffAlwaysCommit(has_changes) == "git_commit"

\* perform_git_operations step 6: commit if git diff --cached is non-empty,
\* return True otherwise
AfterDiff(has_changes) == IF has_changes THEN "git_commit" ELSE "finally"

AfterRebaseAlwaysPush(rebase_ok) == "git_push"

\* perform_git_operations step 10: push only after a successful rebase
AfterRebase(rebase_ok) == IF rebase_ok THEN "git_push" ELSE "finally"

\* perform_git_operations returns False: main sets EXIT_GIT_FAILURE
SyncFailed(r) == [r EXCEPT !.sync = "fail", !.ret = SyncExit(FALSE)]

\* perform_git_operations returns True: main updates .last_run, exit code 0
SyncSucceeded(r) == [r EXCEPT !.sync = "ok", !.ret = SyncExit(TRUE)]

SupInit ==
    /\ now = 0
    /\ lock = NoLock
    /\ pc = [p \in Procs |-> "idle"]
    /\ run = [p \in Procs |-> FreshRun]
    /\ repo = [dirty |-> FALSE, staged |-> FALSE, unpushed |-> 0]
    /\ overlap = FALSE

\* the scheduler starts an invocation of main(); overlap records whether any
\* two invocations have ever been running at the same time
Start(p) ==
    /\ pc[p] \in {"idle", "done", "killed"}
    /\ pc' = [pc EXCEPT ![p] = "check"]
    /\ run' = [run EXCEPT ![p] = FreshRun]
    /\ overlap' = (overlap \/ \E q \in Procs \ {p} : pc[q] \in ActivePcs)
    /\ UNCHANGED <<now, lock, repo, gw, appVars>>

\* main: if not check_lockfile(logger): return EXIT_CONFIG_ERROR
\* The exists/stat/unlink calls of check_lockfile are taken as one step; the
\* step from check_lockfile to create_lockfile is not.
CheckLockfile(p) ==
    /\ pc[p] = "check"
    /\ LET view == LockView(lock, now) IN
        /\ lock' = IF view = "stale" THEN NoLock ELSE lock
        /\ pc' = [pc EXCEPT ![p] = IF view = "recent" THEN "finally" ELSE "create"]
        /\ run' = [run EXCEPT ![p].saw = view,
                              ![p].reclaimed = IF view = "stale" THEN lock.pid ELSE 0,
                              ![p].ret = IF view = "recent" THEN EXIT_CONFIG_ERROR
                                         ELSE run[p].ret]
    /\ UNCHANGED <<now, repo, overlap, gw, appVars>>

\* main: if not create_lockfile(logger): return EXIT_CONFIG_ERROR
\* A failing mkdir or open leaves the path as it was.
CreateLockfile(p) ==
    /\ pc[p] = "create"
    /\ \/ /\ lock' = WrittenLock(p, now)
          /\ pc' = [pc EXCEPT ![p] = "config"]
          /\ run' = [run EXCEPT ![p].created = TRUE]
       \/ /\ lock' = lock
          /\ pc' = [pc EXCEPT ![p] = "finally"]
          /\ run' = [run EXCEPT ![p].ret = EXIT_CONFIG_ERROR]
    /\ UNCHANGED <<now, repo, overlap, gw, appVars>>

\* main: config = load_config(logger); if not config: return EXIT_CONFIG_ERROR
LoadConfig(p) ==
    /\ pc[p] = "config"
    /\ \E ok \in BOOLEAN :
        /\ pc' = [pc EXCEPT ![p] = IF ok THEN "script" ELSE "finally"]
        /\ run' = [run EXCEPT ![p].config = IF ok THEN "ok" ELSE "fail",
                              ![p].ret = IF ok THEN run[p].ret ELSE EXIT_CONFIG_ERROR]
    /\ UNCHANGED <<now, lock, repo, overlap, gw, appVars>>

\* main: script_success = execute_script(logger). The pipeline may leave
\* changed files in the work tree whatever its return code.
ExecuteScript(p) ==
    /\ pc[p] = "script"
    /\ \E return_code \in {0, 1}, wrote \in BOOLEAN :
        LET script_success == (return_code = 0) IN
        /\ pc' = [pc EXCEPT ![p] = AfterScript(script_success)]
        /\ run' = [run EXCEPT ![p].script = IF script_success THEN "ok" ELSE "fail",
                              ![p].ret = ScriptExit(script_success)]
        /\ repo' = [repo EXCEPT !.dirty = repo.dirty \/ wrote]
    /\ UNCHANGED <<now, lock, overlap, gw, appVars>>

\* perform_git_operations steps 0-3: verify the repository, safe.directory,
\* user.name, user.email, remote set-url
GitSetup(p) ==
    /\ pc[p] = "git_setup"
    /\ \E ok \in BOOLEAN :
        /\ pc' = [pc EXCEPT ![p] = IF ok THEN "git_stage" ELSE "finally"]
        /\ run' = [run EXCEPT ![p] =
                     IF ok THEN [run[p] EXCEPT !.sync = "started"]
                     ELSE SyncFailed([run[p] EXCEPT !.sync = "started"])]
    /\ UNCHANGED <<now, lock, repo, overlap, gw, appVars>>

\* perform_git_operations steps 4-6: git rm --cached of the runtime files,
\* git add --all, git diff --cached --quiet
GitStage(p) ==
    /\ pc[p] = "git_stage"
    /\ LET has_changes == repo.staged \/ repo.dirty
           r == [run[p] EXCEPT !.cmds = @ \cup {"add"},
                               !.diff = IF has_changes THEN "nonempty" ELSE "empty"]
       IN
        /\ repo' = [repo EXCEPT !.staged = has_changes, !.dirty = FALSE]
        /\ pc' = [pc EXCEPT ![p] = AfterDiff(has_changes)]
        /\ run' = [run EXCEPT ![p] =
                     IF AfterDiff(has_changes) = "finally" THEN SyncSucceeded(r) ELSE r]
    /\ UNCHANGED <<now, lock, overlap, gw, appVars>>

\* perform_git_operations step 7: git commit -m "Update news <date>"
GitCommit(p) ==
    /\ pc[p] = "git_commit"
    /\ \E outs \in AttemptOutcomes :
        LET res == RunGitCommand(outs, Retry("commit"))
            r == [run[p] EXCEPT !.cmds = @ \cup {"commit"}]
        IN
        /\ res.ok => repo.staged /\ repo.unpushed < MaxUnpushed
        /\ IF res.ok
           THEN /\ repo' = [repo EXCEPT !.staged = FALSE, !.unpushed = @ + 1]
                /\ pc' = [pc EXCEPT ![p] = "git_fetch"]
                /\ run' = [run EXCEPT ![p] = [r EXCEPT !.committed = TRUE]]
           ELSE /\ repo' = repo
                /\ pc' = [pc EXCEPT ![p] = "finally"]
                /\ run' = [run EXCEPT ![p] = SyncFailed(r)]
    /\ UNCHANGED <<now, lock, overlap, gw, appVars>>

\* perform_git_operations step 8: git fetch origin main, with retry
GitFetch(p) ==
    /\ pc[p] = "git_fetch"
    /\ \E outs \in AttemptOutcomes :
        LET res == RunGitCommand(outs, Retry("fetch"))
            r == [run[p] EXCEPT !.cmds = @ \cup {"fetch"},
                                !.fetch = IF res.ok THEN "ok" ELSE "fail"]
        IN
        /\ pc' = [pc EXCEPT ![p] = IF res.ok THEN "git_rebase" ELSE "finally"]
        /\ run' = [run EXCEPT ![p] = IF res.ok THEN r ELSE SyncFailed(r)]
    /\ UNCHANGED <<now, lock, repo, overlap, gw, appVars>>

\* perform_git_operations steps 9-10: git reset --hard HEAD, git rebase
\* origin/main, and git rebase --abort when the rebase fails. The local commits
\* stay ahead of origin/main either way.
GitRebase(p) ==
    /\ pc[p] = "git_rebase"
    /\ \E rebase_ok \in BOOLEAN :
        LET r == [run[p] EXCEPT
                    !.cmds = @ \cup (IF rebase_ok THEN {"reset", "rebase"}
                                     ELSE {"reset", "rebase", "rebase_abort"}),
                    !.rebase = IF rebase_ok THEN "ok" ELSE "fail"]
        IN
        /\ pc' = [pc EXCEPT ![p] = AfterRebase(rebase_ok)]
        /\ run' = [run EXCEPT ![p] =
                     IF AfterRebase(rebase_ok) = "finally" THEN SyncFailed(r) ELSE r]
    /\ repo' = [repo EXCEPT !.staged = FALSE, !.dirty = FALSE]
    /\ UNCHANGED <<now, lock, overlap, gw, appVars>>

\* perform_git_operations step 11: git push origin main, with retry
GitPush(p) ==
    /\ pc[p] = "git_push"
    /\ \E outs \in AttemptOutcomes :
        LET res == RunGitCommand(outs, Retry("push"))
            r == [run[p] EXCEPT !.cmds = @ \cup {"push"}]
        IN
        /\ repo' = IF res.ok THEN [repo EXCEPT !.unpushed = 0] ELSE repo
        /\ pc' = [pc EXCEPT ![p] = "finally"]
        /\ run' = [run EXCEPT ![p] = IF res.ok THEN SyncSucceeded(r) ELSE SyncFailed(r)]
    /\ UNCHANGED <<now, lock, overlap, gw, appVars>>

\* main: except KeyboardInterrupt / except Exception: EXIT_SCRIPT_FAILURE
Interrupt(p) ==
    /\ pc[p] \in TryPcs
    /\ pc' = [pc EXCEPT ![p] = "finally"]
    /\ run' = [run EXCEPT ![p].ret = EXIT_SCRIPT_FAILURE]
    /\ UNCHANGED <<now, lock, repo, overlap, gw, appVars>>

\* main: finally: remove_lockfile(logger); return exit_code
Finally(p) ==
    /\ pc[p] = "finally"
    /\ lock' = RemoveLockfile(lock)
    /\ pc' = [pc EXCEPT ![p] = "done"]
    /\ UNCHANGED <<now, run, repo, overlap, gw, appVars>>

\* the process is killed: nothing of main runs any more, its locals are gone
Kill(p) ==
    /\ pc[p] \in ActivePcs
    /\ pc' = [pc EXCEPT ![p] = "killed"]
    /\ run' = [run EXCEPT ![p] = FreshRun]
    /\ UNCHANGED <<now, lock, repo, overlap, gw, appVars>>

\* time passes
Tick ==
    /\ now + TickStep <= MaxTime
    /\ now' = now + TickStep
    /\ UNCHANGED <<lock, pc, run, repo, overlap, gw, appVars>>

(***************************************************************************)
(* creating-stories.py : ws_send_prompt and call_api_with_retry            *)
(***************************************************************************)
\* what the generation service does on one connection:
\*   "ok"          a result message with Ok content, "ok_empty" one whose content is ""
\*   "closed"      the connection closes cleanly without an Ok result
\*   "conn_closed" websockets.exceptions.ConnectionClosed before any Ok result
\*   "error"       any other exception (connect failure, send failure)
WsEvents == {"ok", "ok_empty", "closed", "conn_closed", "error"}

\* ws_send_prompt: returns the content, or raises when response_content is None
WsSendPrompt(ev) ==
    IF ev = "ok" THEN [raised |-> FALSE, content |-> "story"]
    ELSE IF ev = "ok_empty" THEN [raised |-> FALSE, content |-> ""]
    ELSE [raised |-> TRUE, content |-> ""]

Prompts == {"", "prompt"}

GwIdle == [pc |-> "idle", prompt |-> "", attempt |-> 0, log |-> <<>>,
           none |-> TRUE, content |-> ""]

RangeHasNextOffByOne(attempt) == attempt + 1 <= MAX_RETRIES

\* for attempt in range(MAX_RETRIES): is there an iteration after this one
RangeHasNext(attempt) == attempt + 1 < MAX_RETRIES

\* if attempt < MAX_RETRIES - 1: sleep before the next attempt
WaitsAfterAlways(attempt) == TRUE
WaitsAfter(attempt) == attempt < MAX_RETRIES - 1

\* if attempt < 3: asyncio.sleep(5) else: asyncio.sleep(300)
BackoffDelay(attempt) == IF attempt < 3 THEN 5 ELSE 300

\* the end of one loop iteration: the next attempt, or "Failed to create story
\* after MAX_RETRIES attempts" and return None
NextIteration(g) ==
    IF RangeHasNext(g.attempt)
    THEN [g EXCEPT !.pc = "attempt", !.attempt = @ + 1]
    ELSE [g EXCEPT !.pc = "done", !.none = TRUE, !.content = ""]

GwInit == gw = GwIdle

\* call_api_with_retry(prompt): if not prompt: return None
GwCall ==
    /\ gw.pc \in {"idle", "done"}
    /\ \E prompt \in Prompts :
        gw' = IF prompt = ""
              THEN [GwIdle EXCEPT !.pc = "done"]
              ELSE [GwIdle EXCEPT !.pc = "attempt", !.prompt = prompt]
    /\ UNCHANGED <<supVars, appVars>>

\* story = await ws_send_prompt(prompt, system_prompt); return story
\* except Exception: "Attempt n failed"
GwAttempt ==
    /\ gw.pc = "attempt"
    /\ \E ev \in WsEvents :
        LET res == WsSendPrompt(ev)
            g == [gw EXCEPT !.log = Append(@, [kind |-> "attempt", ev |-> ev, secs |-> 0])]
        IN gw' = IF ~res.raised
                 THEN [g EXCEPT !.pc = "done", !.none = FALSE, !.content = res.content]
                 ELSE IF WaitsAfter(g.attempt)
                 THEN [g EXCEPT !.pc = "sleep"]
                 ELSE NextIteration(g)
    /\ UNCHANGED <<supVars, appVars>>

\* await asyncio.sleep(...) in the except branch
GwSleep ==
    /\ gw.pc = "sleep"
    /\ gw' = NextIteration(
                [gw EXCEPT !.log = Append(@, [kind |-> "sleep", ev |-> "",
                                              secs |-> BackoffDelay(gw.attempt)])])
    /\ UNCHANGED <<supVars, appVars>>

(***************************************************************************)
(* Story pipeline: save_to_database and create_stories of                  *)
(* creating-stories.py over the three tables of create_db.py.              *)
(*                                                                         *)
(* A topic row is [query, categories, date]; its id is its position in     *)
(* topics (AUTOINCREMENT, rows are never deleted).  date is the timestamp  *)
(* save_to_database stamps on every row of one batch: a calendar day and   *)
(* the serial of the ingestion, which stands for the time of day (two      *)
(* ingestions never share a timestamp).  A narrative row is                *)
(* [serpapi_id, day, image_id] with image_id 0 for NULL; images counts the *)
(* rows of image_data.                                                     *)
(***************************************************************************)
MaxTopics == 2
MaxImages == 1
MaxRaceTopics == 1
MaxExtra == 2
NUM_STORIES_TO_CREATE == 20

Runners == {1, 2}
Days == {1, 2}
Queries == {"A", "B"}
Categories == {"17-Sports", "4-Entertainment"}
NamedTrends == [query : Queries, categories : Categories]
\* a trend without query, categories and related terms
Blank == [query |-> "", categories |-> ""]
Trends == NamedTrends \cup {Blank}
Feeds == UNION {[1..n -> Trends] : n \in 0..MaxTopics}

None == "None"
NotReached == "n/a"
CallResults == {None, "", "text"}
ImageOutcomes == {"file", "none", "raise"}
\* workflow.json: present and complete, missing, or without the nodes the
\* function writes to
Templates == {"present", "missing", "incomplete"}
TemplateLoaded(template) == template # "missing"
\* create_image as create_stories sees it: what it returns for a template
\* and an answer of the image service, and whether it contacted the service
CreateImageOutcome(template, service) ==
    IF ~TemplateLoaded(template) THEN [image |-> "none", contacted |-> FALSE]
    ELSE IF template = "incomplete" THEN [image |-> "raise", contacted |-> FALSE]
    ELSE [image |-> service, contacted |-> TRUE]
ImageCalls ==
    {CreateImageOutcome(template, service) :
        template \in Templates, service \in ImageOutcomes \ {"raise"}}
Truthy(x) == x # None /\ x # ""

NoDate == [day |-> 0, serial |-> 0]
LastDate(ts) == IF ts = <<>> THEN NoDate ELSE ts[Len(ts)].date
Stamp(ts, day) == [day |-> day, serial |-> LastDate(ts).serial + 1]
InsertedRows(data, stamp) ==
    [i \in 1..Len(data) |->
        [query |-> data[i].query, categories |-> data[i].categories, date |-> stamp]]

NotSports(ts, i) == ts[i].categories # "17-Sports"
MaxId(S) == CHOOSE i \in S : \A j \in S : j <= i
MinId(S) == CHOOSE i \in S : \A j \in S : i <= j
BatchIds(ts, d) == {j \in 1..Len(ts) : ts[j].date = d /\ NotSports(ts, j)}
DedupIdsNoGroupBy(ts, d) == BatchIds(ts, d)
DedupIds(ts, d) ==
    {MinId({j \in BatchIds(ts, d) : ts[j].query = q}) :
        q \in {ts[j].query : j \in BatchIds(ts, d)}}
NarratedOnDayNever(ts, ns, q, day) == FALSE
NarratedOnDay(ts, ns, q, day) ==
    \E k \in 1..Len(ns) : ts[ns[k].serpapi_id].query = q /\ ns[k].day = day
LimitNone(s, n) == s
Limit(s, n) == IF Len(s) <= n THEN s ELSE SubSeq(s, 1, n)
SelectTopics(ts, ns) ==
    LET d == LastDate(ts)
        Keep(i) == /\ ts[i].date = d
                   /\ NotSports(ts, i)
                   /\ i \in DedupIds(ts, d)
                   /\ ~NarratedOnDay(ts, ns, ts[i].query, d.day)
    IN  Limit(SelectSeq([i \in 1..Len(ts) |-> i], Keep), NUM_STORIES_TO_CREATE)
StoryExists(ns, id) == \E k \in 1..Len(ns) : ns[k].serpapi_id = id

\* What the body of the loop does with one topic, given the result of the
\* narrative call, of the image-prompt call and of create_image.
ProcessTopicStrict(story, prompts, img) ==
    IF story = None
    THEN [story |-> story, prompts |-> NotReached, image |-> NotReached, end |-> "aborted"]
    ELSE IF ~Truthy(prompts)
    THEN [story |-> story, prompts |-> prompts, image |-> NotReached, end |-> "aborted"]
    ELSE IF img \in {"raise", "none"}
    THEN [story |-> story, prompts |-> prompts, image |-> img, end |-> "aborted"]
    ELSE [story |-> story, prompts |-> prompts, image |-> img,
          end |-> IF Truthy(story) THEN "persisted" ELSE "skipped"]
ProcessTopic(story, prompts, img) ==
    IF story = None
    THEN [story |-> story, prompts |-> NotReached, image |-> NotReached, end |-> "aborted"]
    ELSE IF ~Truthy(prompts)
    THEN [story |-> story, prompts |-> prompts, image |-> NotReached, end |-> "aborted"]
    ELSE IF img = "raise"
    THEN [story |-> story, prompts |-> prompts, image |-> img, end |-> "aborted"]
    ELSE [story |-> story, prompts |-> prompts, image |-> img,
          end |-> IF Truthy(story) THEN "persisted" ELSE "skipped"]

\* create_prompt_for_story_generation returns a prompt unless every field
\* is empty; call_api_with_retry returns None for no prompt, without asking
\* the service.
HasPrompt(record) == record.query # "" \/ record.categories # ""
StoryResults(record) == IF HasPrompt(record) THEN CallResults ELSE {None}
\* cursor.lastrowid of save_image_to_database, rows being the rows of
\* image_data after its INSERT (the id after it belongs to no row yet)
LastRowIdOfNextInsert(rows) == rows + 1
LastRowId(rows) == rows

\* conn: create_stories holds its sqlite3 connection (connect at its start,
\* close after the loop; an exception ends the process and the connection)
IdleRun == [pc |-> "idle", rows |-> <<>>, log |-> <<>>, image_id |-> 0, conn |-> FALSE]
CurrentRow(r) == pl[r].rows[Len(pl[r].log) + 1]

PipeInit ==
    /\ topics = <<>>
    /\ narratives = <<>>
    /\ images = 0
    /\ today = 1
    /\ pl = [r \in Runners |-> IdleRun]

\* One execution of the script starts: the fetched trends are stored as one
\* batch.
SaveToDatabase(r) ==
    /\ pl[r].pc \in {"idle", "done", "aborted"}
    /\ \E data \in Feeds :
        /\ Len(topics) + Len(data) <= MaxTopics
        /\ topics' = topics \o InsertedRows(data, Stamp(topics, today))
    /\ pl' = [pl EXCEPT ![r] = [pc |-> "ingested", rows |-> <<>>, log |-> <<>>,
                                image_id |-> 0, conn |-> FALSE]]
    /\ UNCHANGED <<narratives, images, today, supVars, gw, siteVars, fname, render, git>>

SelectRows(r) ==
    /\ pl[r].pc = "ingested"
    /\ pl' = [pl EXCEPT ![r].pc = "loop", ![r].conn = TRUE,
                        ![r].rows = SelectTopics(topics, narratives)]
    /\ UNCHANGED <<topics, narratives, images, today, supVars, gw, siteVars, fname, render, git>>

CheckExists(r) ==
    /\ pl[r].pc = "loop"
    /\ Len(pl[r].log) < Len(pl[r].rows)
    /\ IF StoryExists(narratives, CurrentRow(r))
       THEN pl' = [pl EXCEPT ![r].log = Append(@,
                      [id |-> CurrentRow(r), story |-> NotReached, prompts |-> NotReached,
                       image |-> NotReached, end |-> "exists", contacted |-> FALSE])]
       ELSE pl' = [pl EXCEPT ![r].pc = "generate"]
    /\ UNCHANGED <<topics, narratives, images, today, supVars, gw, siteVars, fname, render, git>>

\* The calls for one topic, and the insert into image_data when a file was
\* produced; the narrative, if it is to be stored, is stored by the next step.
Generate(r) ==
    /\ pl[r].pc = "generate"
    /\ \E story \in StoryResults(topics[CurrentRow(r)]),
          prompts \in CallResults, call \in ImageCalls :
        LET o == ProcessTopic(story, prompts, call.image)
            id == CurrentRow(r)
            saved == o.image = "file"
        IN  /\ saved => images < MaxImages
            /\ images' = IF saved THEN images + 1 ELSE images
            /\ pl' = [pl EXCEPT ![r].pc = IF o.end = "aborted" THEN "aborted"
                                          ELSE IF o.end = "persisted" THEN "save"
                                          ELSE "loop",
                                ![r].image_id = IF saved /\ o.end = "persisted"
                                                THEN LastRowId(images + 1) ELSE 0,
                                ![r].conn = o.end # "aborted",
                                ![r].log = Append(@,
                                    [id |-> id, story |-> o.story, prompts |-> o.prompts,
                                     image |-> o.image, end |-> o.end,
                                     contacted |-> o.image # NotReached /\ call.contacted])]
    /\ UNCHANGED <<topics, narratives, today, supVars, gw, siteVars, fname, render, git>>

\* save_story_to_database(story, serpapi_id, image_id)
SaveStory(r) ==
    /\ pl[r].pc = "save"
    /\ narratives' = Append(narratives,
                          [serpapi_id |-> pl[r].log[Len(pl[r].log)].id, day |-> today,
                           image_id |-> pl[r].image_id])
    /\ pl' = [pl EXCEPT ![r].pc = "loop", ![r].image_id = 0]
    /\ UNCHANGED <<topics, images, today, supVars, gw, siteVars, fname, render, git>>

Finish(r) ==
    /\ pl[r].pc = "loop"
    /\ Len(pl[r].log) = Len(pl[r].rows)
    /\ pl' = [pl EXCEPT ![r].pc = "done", ![r].conn = FALSE]
    /\ UNCHANGED <<topics, narratives, images, today, supVars, gw, siteVars, fname, render, git>>

\* The batch of the end-to-end scenario, stored into the empty store: three
\* trends outside the excluded category, two of them with the same query.
ScenarioFeeds ==
    {b \in [1..3 -> NamedTrends] :
        /\ \A i \in 1..3 : b[i].categories # "17-Sports"
        /\ \E i, j \in 1..3 : i # j /\ b[i].query = b[j].query
        /\ \E i, j \in 1..3 : b[i].query # b[j].query}
SaveScenarioBatch(r) ==
    /\ pl[r].pc = "idle"
    /\ topics = <<>>
    /\ \E data \in ScenarioFeeds :
        topics' = topics \o InsertedRows(data, Stamp(topics, today))
    /\ pl' = [pl EXCEPT ![r] = [pc |-> "ingested", rows |-> <<>>, log |-> <<>>,
                                image_id |-> 0, conn |-> FALSE]]
    /\ UNCHANGED <<narratives, images, today, supVars, gw, siteVars, fname, render, git>>

Midnight ==
    /\ today + 1 \in Days
    /\ today' = today + 1
    /\ UNCHANGED <<topics, narratives, images, pl, supVars, gw, siteVars, fname, render, git>>

(***************************************************************************)
(* Sitemap: generate_sitemap of creating-stories.py.                       *)
(*                                                                         *)
(* sitemap is the file sitemap.xml: absent, not parseable, or a document   *)
(* with a sequence of url entries [loc, lastmod].  In a document read from *)
(* disk lastmod is NoElem when the url has no lastmod element, EmptyElem   *)
(* when the element has no text, and the text otherwise.  dbDates is the   *)
(* set of days on which the store holds narratives.  A python dict is a    *)
(* sequence of [loc, lastmod] pairs with distinct locs, in insertion order.*)
(***************************************************************************)
MaxEntries == 2

Home == "https://trending.oopus.info/"
DateText == <<"2025-01-01", "2025-01-02">>
DateUrl == <<"https://trending.oopus.info/date/20250101",
             "https://trending.oopus.info/date/20250102">>
QueryUrl == "https://trending.oopus.info/search?q=a&lang=en"
Pages == {"https://trending.oopus.info/about", "https://trending.oopus.info/faq", QueryUrl}
Locs == {Home} \cup {DateUrl[d] : d \in Days} \cup Pages
NoElem == "<no lastmod>"
EmptyElem == "<lastmod/>"
OtherText == "2025-01-01T00:00:00Z"
Lastmods == {NoElem, EmptyElem, OtherText} \cup {DateText[d] : d \in Days}
Entries == [loc : Locs, lastmod : Lastmods]
Absent == [state |-> "absent", urls |-> <<>>]
Malformed == [state |-> "malformed", urls |-> <<>>]
Document(urls) == [state |-> "ok", urls |-> urls]
\* What an edit from outside the script can make of the file: remove it,
\* break it, empty it, or add one url entry to it.
Edits(file) ==
    {Absent, Malformed, Document(<<>>)} \cup
    (IF file.state = "ok" /\ Len(file.urls) < MaxEntries
     THEN {Document(Append(file.urls, e)) : e \in Entries}
     ELSE {})

\* strftime('%Y-%m-%d') and strptime(..., '%Y-%m-%d')
Format(d) == DateText[d]
IsDate(text) == \E d \in Days : DateText[d] = text
Parse(text) == CHOOSE d \in Days : DateText[d] = text
\* re.search(r'/date/(\d{8})$', url), and '99999999' for a url without date
DateKey(loc) ==
    IF \E d \in Days : DateUrl[d] = loc
    THEN 20250100 + (CHOOSE d \in Days : DateUrl[d] = loc)
    ELSE 99999999

HasKey(dict, k) == \E i \in 1..Len(dict) : dict[i].loc = k
Get(dict, k) == dict[CHOOSE i \in 1..Len(dict) : dict[i].loc = k].lastmod
Put(dict, k, v) ==
    IF HasKey(dict, k)
    THEN [i \in 1..Len(dict) |-> IF dict[i].loc = k THEN [loc |-> k, lastmod |-> v] ELSE dict[i]]
    ELSE Append(dict, [loc |-> k, lastmod |-> v])

RECURSIVE Descending(_)
Descending(S) ==
    IF S = {} THEN <<>>
    ELSE LET m == CHOOSE x \in S : \A y \in S : y <= x
         IN  <<m>> \o Descending(S \ {m})
DbUrls(dates) ==
    LET ds == Descending(dates)
    IN  [i \in 1..Len(ds) |-> [loc |-> DateUrl[ds[i]], lastmod |-> Format(ds[i])]]

\* lastmod_elem.text.strip() raises on an element without text; the handler
\* of the exception empties existing_urls.
ParseRaises(file) == \E i \in 1..Len(file.urls) : file.urls[i].lastmod = EmptyElem
RECURSIVE ParseUrls(_, _)
ParseUrls(urls, dict) ==
    IF urls = <<>> THEN dict
    ELSE LET u == Head(urls)
             lastmod == IF u.lastmod = NoElem THEN None ELSE u.lastmod
         IN  ParseUrls(Tail(urls), IF u.loc # Home THEN Put(dict, u.loc, lastmod) ELSE dict)
ExistingUrlsSalvaged(file) ==
    IF ParseRaises(file) THEN <<>> ELSE ParseUrls(file.urls, <<>>)
ExistingUrls(file) ==
    IF file.state = "ok" /\ ~ParseRaises(file) THEN ParseUrls(file.urls, <<>>) ELSE <<>>

MergedLastmod(existing_lastmod, db_lastmod) ==
    IF Truthy(existing_lastmod)
    THEN IF IsDate(existing_lastmod)
         THEN IF Parse(db_lastmod) > Parse(existing_lastmod)
              THEN db_lastmod ELSE existing_lastmod
         ELSE db_lastmod
    ELSE db_lastmod
RECURSIVE Merge(_, _)
Merge(merged_urls, db_urls) ==
    IF db_urls = <<>> THEN merged_urls
    ELSE LET u == Head(db_urls)
         IN  Merge(IF HasKey(merged_urls, u.loc)
                   THEN Put(merged_urls, u.loc, MergedLastmod(Get(merged_urls, u.loc), u.lastmod))
                   ELSE Put(merged_urls, u.loc, u.lastmod),
                   Tail(db_urls))

\* list.sort(key=...) is stable: entries with equal keys keep their order.
RECURSIVE InsertByKey(_, _)
InsertByKey(sorted, u) ==
    IF sorted = <<>> THEN <<u>>
    ELSE IF DateKey(Head(sorted).loc) <= DateKey(u.loc)
         THEN <<Head(sorted)>> \o InsertByKey(Tail(sorted), u)
         ELSE <<u>> \o sorted
RECURSIVE SortByKey(_)
SortByKey(urls) ==
    IF urls = <<>> THEN <<>>
    ELSE InsertByKey(SortByKey(SubSeq(urls, 1, Len(urls) - 1)), urls[Len(urls)])

WrittenUnsorted(merged_urls, current_date) ==
    LET sorted_urls == merged_urls
    IN  <<[loc |-> Home, lastmod |-> current_date]>> \o
        [i \in 1..Len(sorted_urls) |->
            [loc |-> sorted_urls[i].loc,
             lastmod |-> IF Truthy(sorted_urls[i].lastmod)
                         THEN sorted_urls[i].lastmod ELSE current_date]]
Written(merged_urls, current_date) ==
    LET sorted_urls == SortByKey(merged_urls)
    IN  <<[loc |-> Home, lastmod |-> current_date]>> \o
        [i \in 1..Len(sorted_urls) |->
            [loc |-> sorted_urls[i].loc,
             lastmod |-> IF Truthy(sorted_urls[i].lastmod)
                         THEN sorted_urls[i].lastmod ELSE current_date]]
\* The lines are written with f-strings, without XML escaping: a text with
\* a markup character (the & of a query string, which the parser delivered
\* unescaped) makes the written file unparseable.
NeedsEscape(text) == text = QueryUrl
WrittenFile(urls) ==
    [state |-> IF \E i \in 1..Len(urls) : NeedsEscape(urls[i].loc) \/ NeedsEscape(urls[i].lastmod)
               THEN "malformed" ELSE "ok",
     urls |-> urls]
MergedSitemap(file, db_urls, day) ==
    WrittenFile(Written(Merge(ExistingUrls(file), db_urls), Format(day)))
Sitemap(file, dates, day) == MergedSitemap(file, DbUrls(dates), day)

\* Which branch the reading of the existing file takes (the message it
\* prints).
ParseOutcome(file) ==
    IF file.state = "absent" THEN "absent"
    ELSE IF file.state = "malformed" THEN "parse_error"
    ELSE IF ParseRaises(file) THEN "read_error"
    ELSE "parsed"

SiteInit ==
    /\ sitemap = Absent
    /\ dbDates = {}
    /\ parseLog = "none"

\* parseLog holds the branch taken by the run that wrote the present file
\* from the present store dates; it is "none" once either has changed.
GenerateSitemap ==
    /\ sitemap' = Sitemap(sitemap, dbDates, today)
    /\ parseLog' = ParseOutcome(sitemap)
    /\ UNCHANGED <<dbDates, pipeVars, supVars, gw, fname, render, git>>

\* The file in the working tree is changed from outside the script: a
\* rebase onto the remote branch, a checkout, an edit by hand.
EditSitemap ==
    /\ \E file \in Edits(sitemap) : sitemap' = file
    /\ parseLog' = "none"
    /\ UNCHANGED <<dbDates, pipeVars, supVars, gw, fname, render, git>>

\* Narratives of other days appear in the store, or are lost from it.
StoreChanges ==
    /\ \E dates \in SUBSET Days : dbDates' = dates
    /\ parseLog' = "none"
    /\ UNCHANGED <<sitemap, pipeVars, supVars, gw, fname, render, git>>

(***************************************************************************)
(* File names of images: sanitize_filename of creating-stories.py.         *)
(*                                                                         *)
(* A string is a sequence of characters.  fname holds one call: the        *)
(* argument, and the returned string once the call has returned.           *)
(***************************************************************************)
MaxAffix == 2
FILENAME_LIMIT == 100

Chars == {"a", "-", " ", "?"}
InvalidChars == {"<", ">", ":", "\"", "/", "\\", "|", "?", "*"}
Affixes == UNION {[1..n -> Chars] : n \in 0..MaxAffix}
Padding(n) == [i \in 1..n |-> "a"]
Pads == {0, FILENAME_LIMIT - 2, FILENAME_LIMIT - 1, FILENAME_LIMIT}
Filenames == {pre \o Padding(n) \o post : pre \in Affixes, n \in Pads, post \in Affixes}

\* re.sub(invalid_chars, '', filename)
RemoveInvalid(str) ==
    LET Valid(c) == c \notin InvalidChars IN SelectSeq(str, Valid)
\* sanitized.replace(' ', '-')
ReplaceSpaces(str) == [i \in 1..Len(str) |-> IF str[i] = " " THEN "-" ELSE str[i]]
\* re.sub(r'-+', '-', sanitized)
CollapseHyphens(str) ==
    LET marked == [i \in 1..Len(str) |->
                      [c |-> str[i], repeat |-> i > 1 /\ str[i] = "-" /\ str[i - 1] = "-"]]
        First(e) == ~e.repeat
        kept == SelectSeq(marked, First)
    IN  [i \in 1..Len(kept) |-> kept[i].c]
\* sanitized.strip('-')
StripHyphens(str) ==
    LET kept == {i \in 1..Len(str) : str[i] # "-"}
    IN  IF kept = {} THEN <<>>
        ELSE SubSeq(str, CHOOSE i \in kept : \A j \in kept : i <= j,
                         CHOOSE i \in kept : \A j \in kept : j <= i)
\* sanitized[:100]
Truncate(str) == IF Len(str) <= FILENAME_LIMIT THEN str ELSE SubSeq(str, 1, FILENAME_LIMIT)
sanitize_filename(filename) ==
    Truncate(StripHyphens(CollapseHyphens(ReplaceSpaces(RemoveInvalid(filename)))))

NoCall == [pc |-> "idle", filename |-> <<>>, sanitized |-> <<>>]
NameInit == fname = NoCall
CallInit == \E filename \in Filenames : fname = [pc |-> "called", filename |-> filename, sanitized |-> <<>>]

SanitizeFilename ==
    /\ fname.pc = "called"
    /\ fname' = [fname EXCEPT !.pc = "returned", !.sanitized = sanitize_filename(fname.filename)]
    /\ UNCHANGED <<supVars, gw, pipeVars, siteVars, render, git>>

(***************************************************************************)
(* Image service: create_image of creating-stories.py.                     *)
(*                                                                         *)
(* render holds one call: the frames received on the websocket so far,     *)
(* whether the image service was contacted, whether the rendered output    *)
(* was fetched, and what the call returned ("file" for a file name, "none" *)
(* for None, "raise" for an exception that leaves create_image).           *)
(***************************************************************************)
MaxFrames == 2

OurJob == "job-1"
OtherJob == "job-2"
NoNode == "<no node>"
NullNode == "null"
\* a text frame is an event [type, node, prompt_id]; the other frames are a
\* binary preview, a text that is not JSON, and the failure of recv
Events == [type : {"executing", "progress"}, node : {NoNode, NullNode, "9"},
           prompt_id : {OurJob, OtherJob}]
Binary == [type |-> "<binary>", node |-> NoNode, prompt_id |-> ""]
NotJson == [type |-> "<not json>", node |-> NoNode, prompt_id |-> ""]
RecvRaised == [type |-> "<recv raised>", node |-> NoNode, prompt_id |-> ""]
Frames == Events \cup {Binary, NotJson, RecvRaised}
\* json.loads or ws.recv raises: except Exception: return None
StreamFails(frame) == frame \in {NotJson, RecvRaised}
\* message['type'] == 'executing' and data.get('node') is None and
\* data.get('prompt_id') == prompt_id
EndsWaitOfAnyJob(frame, prompt_id) ==
    /\ frame \in Events
    /\ frame.type = "executing"
    /\ frame.node \in {NoNode, NullNode}
EndsWait(frame, prompt_id) ==
    /\ frame \in Events
    /\ frame.type = "executing"
    /\ frame.node \in {NoNode, NullNode}
    /\ frame.prompt_id = prompt_id

NoImageCall ==
    [pc |-> "idle", frames |-> <<>>, contacted |-> FALSE, fetched |-> FALSE, result |-> ""]
ImgInit == render = NoImageCall

\* create_image up to the wait loop: workflow.json is loaded and filled in,
\* the websocket is connected and the job is queued
CreateImage ==
    /\ render.pc \in {"idle", "returned"}
    /\ \E template \in Templates, reachable \in BOOLEAN :
        render' = IF ~TemplateLoaded(template)
               THEN [NoImageCall EXCEPT !.pc = "returned", !.result = "none"]
               ELSE IF template = "incomplete"
               THEN [NoImageCall EXCEPT !.pc = "returned", !.result = "raise"]
               ELSE IF ~reachable
               THEN [NoImageCall EXCEPT !.pc = "returned", !.contacted = TRUE,
                                        !.result = "none"]
               ELSE [NoImageCall EXCEPT !.pc = "waiting", !.contacted = TRUE]
    /\ UNCHANGED <<supVars, gw, pipeVars, siteVars, fname, git>>

\* one turn of the wait loop: out = ws.recv()
Recv ==
    /\ render.pc = "waiting"
    /\ Len(render.frames) < MaxFrames
    /\ \E frame \in Frames :
        render' = [render EXCEPT !.frames = Append(@, frame),
                           !.pc = IF StreamFails(frame) THEN "returned"
                                  ELSE IF EndsWait(frame, OurJob) THEN "fetch"
                                  ELSE "waiting",
                           !.result = IF StreamFails(frame) THEN "none" ELSE @]
    /\ UNCHANGED <<supVars, gw, pipeVars, siteVars, fname, git>>

\* get_history, get_image and the write of the file; an output without
\* images or an exception gives None
FetchOutput ==
    /\ render.pc = "fetch"
    /\ \E saved \in BOOLEAN :
        render' = [render EXCEPT !.pc = "returned", !.fetched = TRUE,
                           !.result = IF saved THEN "file" ELSE "none"]
    /\ UNCHANGED <<supVars, gw, pipeVars, siteVars, fname, git>>

(***************************************************************************)
(* run_git_command, called as perform_git_operations calls it.             *)
(*                                                                         *)
(* git holds one call: the command, the exit statuses its attempts will    *)
(* meet, and the result of RunGitCommand once the call has returned.       *)
(***************************************************************************)
NoGitResult == [ok |-> FALSE, attempts |-> 0, slept |-> <<>>]
NoGitCall == [pc |-> "idle", command |-> "", outs |-> <<>>, res |-> NoGitResult]
GitIdleInit == git = NoGitCall
GitCallInit ==
    \E command \in GitCommands, outs \in AttemptOutcomes :
        git = [pc |-> "called", command |-> command, outs |-> outs, res |-> NoGitResult]
GitCommand ==
    /\ git.pc = "called"
    /\ git' = [git EXCEPT !.pc = "returned",
                          !.res = RunGitCommand(git.outs, Retry(git.command))]
    /\ UNCHANGED <<supVars, gw, pipeVars, siteVars, fname, render>>

(***************************************************************************)
(* Specifications                                                          *)
(***************************************************************************)
Init == SupInit /\ GwInit /\ PipeInit /\ SiteInit /\ NameInit /\ ImgInit /\ GitIdleInit

Next ==
    \/ \E p \in Procs : Start(p)
    \/ \E p \in Procs : CheckLockfile(p)
    \/ \E p \in Procs : CreateLockfile(p)
    \/ \E p \in Procs : LoadConfig(p)
    \/ \E p \in Procs : ExecuteScript(p)
    \/ \E p \in Procs : GitSetup(p)
    \/ \E p \in Procs : GitStage(p)
    \/ \E p \in Procs : GitCommit(p)
    \/ \E p \in Procs : GitFetch(p)
    \/ \E p \in Procs : GitRebase(p)
    \/ \E p \in Procs : GitPush(p)
    \/ \E p \in Procs : Interrupt(p)
    \/ \E p \in Procs : Finally(p)
    \/ \E p \in Procs : Kill(p)
    \/ Tick

Spec == Init /\ [][Next]_vars

GwNext == GwCall \/ GwAttempt \/ GwSleep

GatewaySpec == Init /\ [][GwNext]_vars

\* Executions of the script one after the other, as the run marker intends.
PipelineNext ==
    \/ SaveToDatabase(1)
    \/ SelectRows(1)
    \/ CheckExists(1)
    \/ Generate(1)
    \/ SaveStory(1)
    \/ Finish(1)
    \/ Midnight

PipelineSpec == Init /\ [][PipelineNext]_vars

\* One execution of the script on the batch of the end-to-end scenario.
\* A batch around the per-run quota, stored into the empty store: size
\* trends with pairwise different queries, the first excluded or not.
QuotaSizes == (NUM_STORIES_TO_CREATE - 1)..(NUM_STORIES_TO_CREATE + MaxExtra)
QuotaFeed(size, excluded) ==
    [i \in 1..size |->
        [query |-> ToString(i),
         categories |-> IF excluded /\ i = 1 THEN "17-Sports" ELSE "4-Entertainment"]]
SaveQuotaBatch(r) ==
    /\ pl[r].pc = "idle"
    /\ topics = <<>>
    /\ \E size \in QuotaSizes, excluded \in BOOLEAN :
        topics' = InsertedRows(QuotaFeed(size, excluded), Stamp(topics, today))
    /\ pl' = [pl EXCEPT ![r] = [pc |-> "ingested", rows |-> <<>>, log |-> <<>>,
                                image_id |-> 0, conn |-> FALSE]]
    /\ UNCHANGED <<narratives, images, today, supVars, gw, siteVars, fname, render, git>>

\* The loop body when the services answer so that the topic is stored
\* without an image (the image service giving no output) or the run ends:
\* the outcomes that leave the length of the run, not its order, open.
GenerateOrAbort(r) ==
    /\ Generate(r)
    /\ images' = images
    /\ pl'[r].pc \in {"save", "aborted"}
    /\ pl'[r].pc = "save" => pl'[r].log[Len(pl'[r].log)].contacted

QuotaNext ==
    \/ SaveQuotaBatch(1)
    \/ SelectRows(1)
    \/ CheckExists(1)
    \/ GenerateOrAbort(1)
    \/ SaveStory(1)
    \/ Finish(1)

QuotaSpec == Init /\ [][QuotaNext]_vars

ScenarioNext ==
    \/ SaveScenarioBatch(1)
    \/ SelectRows(1)
    \/ CheckExists(1)
    \/ Generate(1)
    \/ SaveStory(1)
    \/ Finish(1)
    \/ Midnight

ScenarioSpec == Init /\ [][ScenarioNext]_vars

SitemapNext == GenerateSitemap \/ EditSitemap \/ StoreChanges \/ Midnight

SitemapSpec == Init /\ [][SitemapNext]_vars

\* One call of sanitize_filename on each of the strings of Filenames.
SanitizeNext == SanitizeFilename

SanitizeInit ==
    SupInit /\ GwInit /\ PipeInit /\ SiteInit /\ CallInit /\ ImgInit /\ GitIdleInit

SanitizeSpec == SanitizeInit /\ [][SanitizeNext]_vars

\* Calls of create_image one after the other.
ImageNext == CreateImage \/ Recv \/ FetchOutput

ImageSpec == Init /\ [][ImageNext]_vars

\* One call of run_git_command for each command of the sync phase and each
\* sequence of exit statuses.
GitCommandNext == GitCommand

GitCommandInit ==
    SupInit /\ GwInit /\ PipeInit /\ SiteInit /\ NameInit /\ ImgInit /\ GitCallInit

GitCommandSpec == GitCommandInit /\ [][GitCommandNext]_vars

\* Two executions of the script at once: the marker check of the supervisor
\* does not exclude them (MutualExclusion is violated under Spec).  The
\* store is kept to MaxRaceTopics topic rows.
SaveSmallBatch(r) == SaveToDatabase(r) /\ Len(topics') <= MaxRaceTopics

RaceNext ==
    \/ \E r \in Runners : SaveSmallBatch(r)
    \/ \E r \in Runners : SelectRows(r)
    \/ \E r \in Runners : CheckExists(r)
    \/ \E r \in Runners : Generate(r)
    \/ \E r \in Runners : SaveStory(r)
    \/ \E r \in Runners : Finish(r)
    \/ Midnight

RaceSpec == Init /\ [][RaceNext]_vars

(***************************************************************************)
(* Properties of the run supervisor (checked under Spec)                   *)
(***************************************************************************)

\* C1: at no time are two invocations of main both past lock acquisition
\* (between a successful create_lockfile and the finally block).
MutualExclusion ==
    \A p, q \in Procs : p # q => ~(pc[p] \in HoldingPcs /\ pc[q] \in HoldingPcs)

\* C2: check_lockfile with the 30-minute threshold. A marker older than the
\* threshold is removed and the run goes on to create its own; a marker
\* younger than the threshold is left alone and the run ends without running
\* the pipeline or any sync step; with no marker the run goes on to create one.
LockAcquisition ==
    /\ [](\A p \in Procs :
            run[p].saw = "recent" =>
                /\ pc[p] \in {"finally", "done"}
                /\ ~run[p].created
                /\ run[p].script = "none" /\ run[p].sync = "none" /\ run[p].cmds = {})
    /\ [][\A p \in Procs :
            (pc[p] = "check" /\ run'[p].saw # "none") =>
                /\ (lock.exists /\ now - lock.mtime > LOCKFILE_STALE_MINUTES) =>
                        (~lock'.exists /\ pc'[p] = "create")
                /\ (lock.exists /\ now - lock.mtime < LOCKFILE_STALE_MINUTES) =>
                        (lock' = lock /\ pc'[p] = "finally" /\ run'[p].saw = "recent")
                /\ ~lock.exists => (lock' = lock /\ pc'[p] = "create")]_vars

\* C2 witness: the marker of a killed invocation has been reclaimed by a later
\* invocation, which now holds its own marker.
StaleLockOfKilledRunReclaimed ==
    \E p, q \in Procs :
        /\ p # q
        /\ pc[q] = "killed"
        /\ run[p].saw = "stale" /\ run[p].reclaimed = q
        /\ pc[p] = "config" /\ lock = WrittenLock(p, now)

SyncOnlyAfterPipelineSuccess ==
    \A p \in Procs :
        /\ (pc[p] \in SyncPcs \/ run[p].sync # "none" \/ run[p].cmds # {}) =>
                run[p].script = "ok"
        /\ run[p].script = "fail" =>
                (pc[p] \in {"finally", "done"} /\ run[p].sync = "none"
                 /\ run[p].cmds = {})

\* C4 witness: a run whose pipeline failed has returned.
PipelineFailedRunReturned ==
    \E p \in Procs : pc[p] = "done" /\ run[p].script = "fail"

\* C5: a push is attempted only after a successful fetch and a successful
\* rebase of the same sync phase; after a failed rebase the rebase is aborted,
\* the sync phase fails and nothing is pushed.
NoPushAfterRebaseFailure ==
    \A p \in Procs :
        /\ (pc[p] = "git_push" \/ "push" \in run[p].cmds) =>
                (run[p].fetch = "ok" /\ run[p].rebase = "ok")
        /\ run[p].rebase = "fail" =>
                /\ "rebase_abort" \in run[p].cmds
                /\ "push" \notin run[p].cmds
                /\ run[p].sync = "fail"
                /\ pc[p] \in {"finally", "done"}

\* C5 witness: a run whose rebase failed has returned.
RebaseFailedRunReturned ==
    \E p \in Procs : pc[p] = "done" /\ run[p].rebase = "fail"

\* C6: when runs never overlap and an earlier run committed and then failed
\* its sync phase, a later run whose sync phase ends in success leaves no
\* local commit unpushed.
UnpushedCommitsPushedOnSuccess ==
    [][\A p \in Procs :
        ( /\ ~overlap
          /\ pc[p] \in SyncPcs /\ run'[p].sync = "ok"
          /\ \E q \in Procs \ {p} :
                pc[q] = "done" /\ run[q].committed /\ run[q].sync = "fail" )
        => repo'.unpushed = 0]_vars

\* C7 as claimed: at the end of a sync phase that reached the diff, a commit
\* was created if and only if the staged diff was non-empty, and an empty diff
\* ends the sync phase in success.
CommitIffDiffNonEmpty ==
    \A p \in Procs :
        (run[p].sync \in {"ok", "fail"} /\ run[p].diff # "none") =>
            /\ run[p].committed <=> run[p].diff = "nonempty"
            /\ run[p].diff = "empty" => run[p].sync = "ok"

\* C7 as amended: a commit is attempted if and only if the staged diff is
\* non-empty and is created only then; when the commit command fails the sync
\* phase ends in failure without a commit; an empty diff ends the sync phase
\* in success without a commit.
CommitAttemptedIffDiffNonEmpty ==
    \A p \in Procs :
        /\ run[p].committed => ("commit" \in run[p].cmds /\ run[p].diff = "nonempty")
        /\ "commit" \in run[p].cmds => run[p].diff = "nonempty"
        /\ (run[p].sync \in {"ok", "fail"} /\ run[p].diff # "none") =>
            /\ "commit" \in run[p].cmds <=> run[p].diff = "nonempty"
            /\ (run[p].diff = "nonempty" /\ ~run[p].committed) => run[p].sync = "fail"
            /\ run[p].diff = "empty" => (~run[p].committed /\ run[p].sync = "ok")

\* C7 witness: a sync phase with an empty staged diff has ended in success.
EmptyDiffSyncSucceeded ==
    \E p \in Procs :
        pc[p] = "done" /\ run[p].diff = "empty" /\ run[p].sync = "ok"
        /\ run[p].ret = EXIT_SUCCESS

RefusedRunHasDistinctSignal ==
    \A p, q \in Procs :
        ( /\ pc[p] = "done" /\ run[p].saw = "recent"
          /\ pc[q] = "done" /\ run[q].saw # "recent"
          /\ (run[q].config = "fail" \/ run[q].script = "fail"
              \/ run[q].sync \in {"ok", "fail"}) )
        => run[p].ret # run[q].ret

\* C25: an invocation refused by another run's recent marker leaves that
\* marker in place: once the refused invocation has returned, the marker of
\* the run that is still executing is still there, written by that run.
RefusedRunLeavesMarker ==
    \A p, q \in Procs :
        ( /\ p # q
          /\ pc[p] = "done" /\ run[p].saw = "recent"
          /\ pc[q] \in HoldingPcs /\ run[q].created )
        => (lock.exists /\ lock.pid = q)

(***************************************************************************)
(* Properties of the gateway (checked under GatewaySpec)                   *)
(***************************************************************************)
IsAttempt(e) == e.kind = "attempt"
AttemptFailed(e) == e.ev \in {"closed", "conn_closed", "error"}
AttemptsMade == SelectSeq(gw.log, IsAttempt)

\* C10: call_api_with_retry with a non-empty prompt makes at most MAX_RETRIES
\* attempts; it returns the content of the first successful attempt and makes
\* no attempt after it; it gives up only after MAX_RETRIES failed attempts.
RetryBound ==
    LET att == AttemptsMade
        n == Len(att)
    IN  /\ n <= MAX_RETRIES
        /\ \A i \in 1..(n - 1) : AttemptFailed(att[i])
        /\ (n > 0 /\ ~AttemptFailed(att[n])) =>
                /\ gw.pc = "done" /\ ~gw.none
                /\ gw.log[Len(gw.log)] = att[n]
                /\ gw.content = (IF att[n].ev = "ok" THEN "story" ELSE "")
        /\ (gw.pc = "done" /\ gw.prompt # "") =>
                IF gw.none
                THEN n = MAX_RETRIES /\ \A i \in 1..n : AttemptFailed(att[i])
                ELSE n > 0 /\ ~AttemptFailed(att[n])
        /\ (gw.pc # "done" /\ gw.prompt # "") => gw.attempt = (IF gw.pc = "sleep" THEN n - 1 ELSE n)

\* C10 witness: a call has given up after MAX_RETRIES failed attempts, the
\* last of them a transport error.
RetriesExhausted ==
    /\ gw.pc = "done" /\ gw.prompt # "" /\ gw.none
    /\ Len(AttemptsMade) = MAX_RETRIES
    /\ AttemptsMade[MAX_RETRIES].ev = "error"

IsSleep(e) == e.kind = "sleep"
SleepsMade == SelectSeq(gw.log, IsSleep)

\* C11: a call in which all 4 attempts fail waits 5 s before attempts 2 and 3
\* and 300 s before the 4th attempt, and nothing after it.
LongWaitBeforeFinalAttempt ==
    (gw.pc = "done" /\ gw.prompt # "" /\ gw.none) =>
        /\ Len(SleepsMade) = 3
        /\ SleepsMade[1].secs = 5 /\ SleepsMade[2].secs = 5 /\ SleepsMade[3].secs = 300

\* C12: an attempt whose connection closes cleanly without a success result
\* ends the call at once with no content: it is the last entry of the call's
\* log, so no wait and no further attempt follows it.
NoRetryAfterCleanClose ==
    \A i \in 1..Len(gw.log) :
        (gw.log[i].kind = "attempt" /\ gw.log[i].ev = "closed") =>
            (i = Len(gw.log) /\ gw.pc = "done" /\ gw.none)

\* C29: no wait follows the final attempt: once MAX_RETRIES attempts have
\* been made the call is not sleeping, the last entry of its log is that
\* attempt, and only the waits between the attempts were made.
NoWaitAfterFinalAttempt ==
    Len(AttemptsMade) = MAX_RETRIES =>
        /\ gw.pc = "done"
        /\ IsAttempt(gw.log[Len(gw.log)])
        /\ Len(SleepsMade) = MAX_RETRIES - 1
FinalAttemptRaised ==
    /\ Len(AttemptsMade) = MAX_RETRIES
    /\ gw.log[Len(gw.log)].ev \in {"error", "conn_closed"}
    /\ gw.none

(***************************************************************************)
(* Properties of the story pipeline (checked under PipelineSpec, and under *)
(* RaceSpec where two executions overlap)                                  *)
(***************************************************************************)
Processed(r) == {i \in 1..Len(pl[r].log) : pl[r].log[i].end # "exists"}

\* C13: a topic whose narrative request failed after all retries is skipped:
\* nothing is written for it and the run goes on to the next topic instead
\* of aborting.
NarrativeFailureIsolated ==
    \A r \in Runners : \A i \in Processed(r) :
        pl[r].log[i].story = None =>
            /\ pl[r].log[i].end = "skipped"
            /\ pl[r].pc # "aborted"

ImageFailed(e) ==
    /\ e.story = "text"
    /\ \/ e.prompts = None
       \/ e.image = "none"
       \/ e.image = "raise"

\* C14: whichever image stage failed after the narrative was produced (the
\* image-prompt call exhausted, the image service returned no file, the image
\* service raised), the run ends the topic the same way: all such topics are
\* persisted with a null image, or all of them abort the run.
OneImageFailurePolicy ==
    \A r \in Runners : \A i, j \in Processed(r) :
        (ImageFailed(pl[r].log[i]) /\ ImageFailed(pl[r].log[j])) =>
            pl[r].log[i].end = pl[r].log[j].end

\* C15: the store never holds two narrative rows that reference the same
\* topic id.
OneNarrativePerTopic ==
    \A i, j \in 1..Len(narratives) :
        i # j => narratives[i].serpapi_id # narratives[j].serpapi_id

\* C16: the selection of one run never returns two topics with the same
\* query.
OneTopicPerQuery ==
    \A r \in Runners : \A i, j \in 1..Len(pl[r].rows) :
        i # j => topics[pl[r].rows[i]].query # topics[pl[r].rows[j]].query

\* C16 witness: a run has just selected from a batch in which two topics
\* outside the excluded category carry the same query.
DuplicateQueryBatchSelected ==
    \E r \in Runners :
        /\ pl[r].pc = "loop" /\ pl[r].log = <<>> /\ pl[r].rows # <<>>
        /\ \E i, j \in BatchIds(topics, LastDate(topics)) :
               i # j /\ topics[i].query = topics[j].query

SameQueryInBatch(t) ==
    {j \in 1..Len(topics) :
        topics[j].date = LastDate(topics) /\ topics[j].query = topics[t].query}

\* C17 (as stated): every selected topic belongs to the active batch, is not
\* in the excluded category, and has the lowest id among all topics of the
\* active batch with the same query.
SelectedIsLowestOfQuery ==
    \A r \in Runners : \A k \in 1..Len(pl[r].rows) :
        LET t == pl[r].rows[k]
        IN  /\ topics[t].date = LastDate(topics)
            /\ topics[t].categories # "17-Sports"
            /\ \A j \in SameQueryInBatch(t) : t <= j

\* C17 (amended): every selected topic belongs to the active batch, is not
\* in the excluded category, and has the lowest id among the topics of the
\* active batch with the same query that are not in the excluded category.
SelectedIsLowestOfQueryOutsideExcluded ==
    \A r \in Runners : \A k \in 1..Len(pl[r].rows) :
        LET t == pl[r].rows[k]
        IN  /\ topics[t].date = LastDate(topics)
            /\ topics[t].categories # "17-Sports"
            /\ \A j \in SameQueryInBatch(t) :
                   topics[j].categories # "17-Sports" => t <= j

\* C17 witness: a selected topic comes after a topic of its batch that has
\* the same query and is in the excluded category.
SelectedAfterExcludedTwin ==
    \E r \in Runners : \E k \in 1..Len(pl[r].rows) :
        LET t == pl[r].rows[k]
        IN  \E j \in SameQueryInBatch(t) : j < t /\ topics[j].categories = "17-Sports"

\* C18: a run adds no narrative for a query that already has a narrative
\* created on the day of the batch, also when that narrative is linked to
\* another topic id with the same query.
NoNarrativeForNarratedQuery ==
    [][\A k \in 1..Len(narratives') :
          k > Len(narratives) =>
              LET t == narratives'[k].serpapi_id
              IN  ~\E m \in 1..Len(narratives) :
                      /\ topics[narratives[m].serpapi_id].query = topics[t].query
                      /\ narratives[m].day = topics[t].date.day]_vars

\* C18 witness: a run on a batch has ended and left a topic of the batch
\* without narrative whose query was narrated the same day for a topic of an
\* earlier batch.
NarratedQueryLeftAlone ==
    /\ pl[1].pc = "done"
    /\ \E t \in BatchIds(topics, LastDate(topics)) :
        /\ ~\E k \in 1..Len(narratives) : narratives[k].serpapi_id = t
        /\ \E m \in 1..Len(narratives) :
            /\ topics[narratives[m].serpapi_id].date # LastDate(topics)
            /\ topics[narratives[m].serpapi_id].query = topics[t].query
            /\ narratives[m].day = LastDate(topics).day

ScenarioBatch ==
    /\ Len(topics) = 3
    /\ \A i \in 1..3 : topics[i].date = LastDate(topics) /\ topics[i].categories # "17-Sports"
    /\ \E i, j, k \in 1..3 :
        /\ i < j /\ k \notin {i, j}
        /\ topics[i].query = topics[j].query
        /\ topics[k].query # topics[i].query
GatewayAlwaysSucceeded(r) ==
    \A i \in Processed(r) : pl[r].log[i].story = "text" /\ pl[r].log[i].prompts = "text"
PersistedBy(r) == {i \in Processed(r) : pl[r].log[i].end = "persisted"}

\* C19: a run over a freshly ingested 3-topic batch (two topics with one
\* query, one with another, none excluded, nothing narrated before) selects
\* the lowest-id topic of each query, and when every gateway call of the run
\* succeeded it ends with exactly 2 narratives, one per selected topic.
EndToEndTwoNarratives ==
    \A r \in Runners :
        (/\ pl[r].pc \in {"done", "aborted"}
         /\ ScenarioBatch
         /\ Len(narratives) = Cardinality(PersistedBy(r))
         /\ GatewayAlwaysSucceeded(r)) =>
            /\ Len(pl[r].rows) = 2
            /\ \A k \in 1..2 : \A j \in SameQueryInBatch(pl[r].rows[k]) : pl[r].rows[k] <= j
            /\ Len(narratives) = 2
            /\ \A k \in 1..2 : narratives[k].serpapi_id = pl[r].rows[k]

\* C26: a topic for which no prompt can be built is skipped and not an
\* error: nothing is written for it and the run goes on to the next topic
\* without failing.
PromptlessTopicSkipped ==
    \A r \in Runners : \A i \in Processed(r) :
        ~HasPrompt(topics[pl[r].log[i].id]) =>
            /\ pl[r].log[i].end = "skipped"
            /\ pl[r].pc # "aborted"

NewNarratives == {k \in 1..Len(narratives') : k > Len(narratives)}

\* C27: in every state each narrative's image reference is null (0) or the
\* id of a row of image_data, and the step that inserts a narrative inserts
\* no image: the image it references was in the store before that step.
ImageInsertedBeforeNarrative ==
    /\ [](\A k \in 1..Len(narratives) : narratives[k].image_id \in 0..images)
    /\ [][\A k \in NewNarratives :
            /\ images' = images
            /\ narratives'[k].image_id \in 0..images]_vars
NarrativeReferencesImage ==
    \E k \in 1..Len(narratives) : narratives[k].image_id \in 1..images

Referenced(image_id) == \E k \in 1..Len(narratives) : narratives[k].image_id = image_id

\* C28: whenever the processing of a topic has completed, every row of
\* image_data is referenced by some narrative.
NoOrphanImages ==
    \A r \in Runners :
        (pl[r].pc \in {"loop", "done"} /\ Processed(r) # {}) =>
            \A image_id \in 1..images : Referenced(image_id)

Candidates == DedupIds(topics, LastDate(topics))

\* C30 (checked under QuotaSpec): one run processes at most
\* NUM_STORIES_TO_CREATE topics, in strictly ascending id order, and one
\* topic at a time: while the calls of a topic are made or its narrative is
\* stored, every topic handled before has a lower id and its outcome is
\* already decided.
QuotaOrderAndSequence ==
    \A r \in Runners :
        LET log == pl[r].log
        IN  /\ Len(pl[r].rows) <= NUM_STORIES_TO_CREATE
            /\ Len(log) <= Len(pl[r].rows)
            /\ \A i, j \in 1..Len(log) : i < j => log[i].id < log[j].id
            /\ \A i \in 1..Len(log) : log[i].id = pl[r].rows[i]
            /\ pl[r].pc = "generate" =>
                    \A i \in 1..Len(log) :
                        /\ log[i].id < CurrentRow(r)
                        /\ log[i].end \in {"exists", "skipped", "persisted"}
            /\ pl[r].pc = "save" =>
                    \A i \in 1..(Len(log) - 1) : StoryExists(narratives, log[i].id)
QuotaReached ==
    /\ Cardinality(Candidates) > NUM_STORIES_TO_CREATE
    /\ pl[1].pc = "done"
    /\ Len(pl[1].log) = NUM_STORIES_TO_CREATE
    /\ Len(narratives) = NUM_STORIES_TO_CREATE

\* C33: the store is not held open across a network call: a run that is at
\* the calls of a topic (the narrative request, the pacing pause, the
\* image-prompt request and the image service, which the step Generate
\* completes) holds no open connection.
NoConnectionAcrossCalls ==
    \A r \in Runners : pl[r].pc = "generate" => ~pl[r].conn

\* a topic for which create_image returned None without contacting the
\* image service: workflow.json was missing
TemplateMissing(e) == e.image = "none" /\ ~e.contacted

\* C35: when the workflow template is missing create_image contacts no
\* service and the pipeline degrades: the run does not abort at the topic,
\* and a topic with a narrative text is persisted with a null (0) image
\* reference.
MissingTemplateDegrades ==
    \A r \in Runners : \A i \in Processed(r) :
        LET e == pl[r].log[i]
        IN  TemplateMissing(e) =>
                /\ e.end = IF e.story = "text" THEN "persisted" ELSE "skipped"
                /\ ~(pl[r].pc = "aborted" /\ i = Len(pl[r].log))
                /\ (e.end = "persisted" /\ ~(pl[r].pc = "save" /\ i = Len(pl[r].log))) =>
                        \E k \in 1..Len(narratives) :
                            /\ narratives[k].serpapi_id = e.id
                            /\ narratives[k].image_id = 0
\* C35 witness: a run has persisted a topic whose image could not be made
\* for lack of the template, and has gone on to its next topic.
WentOnWithoutTemplate ==
    \E i \in Processed(1) :
        /\ i < Len(pl[1].log)
        /\ TemplateMissing(pl[1].log[i])
        /\ pl[1].log[i].end = "persisted"
        /\ StoryExists(narratives, pl[1].log[i].id)

(***************************************************************************)
(* Properties of the sitemap merge (checked under SitemapSpec)             *)
(***************************************************************************)
\* The url entries of a document that carry a last-modified text, are not
\* the homepage and whose loc occurs once in the document.
Dated(file) ==
    {i \in 1..Len(file.urls) :
        /\ file.urls[i].loc # Home
        /\ file.urls[i].lastmod \notin {NoElem, EmptyElem}
        /\ \A j \in 1..Len(file.urls) : file.urls[j].loc = file.urls[i].loc => j = i}
FromStore(loc, dates) == \E d \in dates : DateUrl[d] = loc

\* C20: history preservation: generate_sitemap run on a well-formed existing
\* document writes every url of that document that is not the homepage and
\* is not derived from the store's narrative dates, with the last-modified
\* text it had.
HistoryPreserved ==
    [][(GenerateSitemap /\ sitemap.state = "ok") =>
          \A i \in Dated(sitemap) :
              ~FromStore(sitemap.urls[i].loc, dbDates) =>
                  \E j \in 1..Len(sitemap'.urls) : sitemap'.urls[j] = sitemap.urls[i]]_vars

\* C21: the merge is idempotent: generate_sitemap applied to the file it has
\* just written, with the same store dates on the same day, writes the same
\* document again.
MergeIdempotent ==
    [][GenerateSitemap => Sitemap(sitemap', dbDates, today) = sitemap']_vars

DistinctLocs(urls) == \A i, j \in 1..Len(urls) : urls[i].loc = urls[j].loc => i = j
Reordered(seq, p) == [i \in 1..Len(seq) |-> seq[p[i]]]

\* C22: the merge is commutative with respect to entry order: the same url
\* entries in any other order, and the store dates in any order, give the
\* same written document.
MergeCommutative ==
    [][(/\ GenerateSitemap
        /\ sitemap.state = "ok" /\ sitemap'.state = "ok"
        /\ DistinctLocs(sitemap.urls)) =>
          \A p \in Permutations(1..Len(sitemap.urls)) :
              \A q \in Permutations(1..Cardinality(dbDates)) :
                  MergedSitemap(Document(Reordered(sitemap.urls, p)),
                                Reordered(DbUrls(dbDates), q), today) = sitemap']_vars

\* C23: a malformed existing sitemap is treated as absent: the run does not
\* fail and writes the homepage followed by exactly the urls derived from
\* the store's narrative dates.
MalformedTreatedAsAbsent ==
    parseLog = "parse_error" =>
        /\ sitemap.state = "ok"
        /\ Len(sitemap.urls) = 1 + Cardinality(dbDates)
        /\ sitemap.urls[1].loc = Home
        /\ {sitemap.urls[i].loc : i \in 2..Len(sitemap.urls)} = {DateUrl[d] : d \in dbDates}

\* C23 witness: a run has read an unparseable file while the store held
\* narratives, and has written its document.
MalformedReadWithStoreDates ==
    parseLog = "parse_error" /\ dbDates # {} /\ sitemap.state = "ok"

Later(a, b) == IF b > a THEN b ELSE a
\* The entries of an existing document with a date as last-modified text,
\* whose loc occurs once in it and is derived from the store's dates.
InBoth(file, dates) ==
    {i \in Dated(file) : IsDate(file.urls[i].lastmod) /\ FromStore(file.urls[i].loc, dates)}

\* C31: for every url present both in the existing sitemap and in the
\* mapping derived from the store, the written sitemap carries the later of
\* the two last-modified dates.
LaterDateKept ==
    [][(GenerateSitemap /\ sitemap.state = "ok") =>
          \A i \in InBoth(sitemap, dbDates) :
              \E j \in 1..Len(sitemap'.urls) :
                  /\ sitemap'.urls[j].loc = sitemap.urls[i].loc
                  /\ sitemap'.urls[j].lastmod =
                        Format(Later(Parse(sitemap.urls[i].lastmod),
                                     Parse(Get(DbUrls(dbDates), sitemap.urls[i].loc))))]_vars
\* the same for the documents that generate_sitemap reads to the end
LaterDateKeptWhenRead ==
    [][(GenerateSitemap /\ sitemap.state = "ok" /\ ~ParseRaises(sitemap)) =>
          \A i \in InBoth(sitemap, dbDates) :
              \E j \in 1..Len(sitemap'.urls) :
                  /\ sitemap'.urls[j].loc = sitemap.urls[i].loc
                  /\ sitemap'.urls[j].lastmod =
                        Format(Later(Parse(sitemap.urls[i].lastmod),
                                     Parse(Get(DbUrls(dbDates), sitemap.urls[i].loc))))]_vars

HasDate(loc) == \E d \in Days : DateUrl[d] = loc
DayOf(loc) == CHOOSE d \in Days : DateUrl[d] = loc

\* C32: in every sitemap that generate_sitemap writes the homepage is the
\* first entry and occurs once, the other entries are in ascending order of
\* the date in their url, every url without a date comes after every url
\* with one, and no url occurs twice.
WrittenInOrder ==
    [][GenerateSitemap =>
          LET urls == sitemap'.urls
          IN  /\ urls # <<>> /\ urls[1].loc = Home
              /\ \A i \in 2..Len(urls) : urls[i].loc # Home
              /\ \A i, j \in 2..Len(urls) :
                    (i < j /\ HasDate(urls[j].loc)) =>
                        /\ HasDate(urls[i].loc)
                        /\ DayOf(urls[i].loc) < DayOf(urls[j].loc)
              /\ DistinctLocs(urls)]_vars
\* C32 witness: a run has merged a document that held a page without date
\* with the dates of the store, and its document holds both kinds of url.
WrittenPagesAndDates ==
    /\ parseLog = "parsed"
    /\ Cardinality(dbDates) = 2
    /\ \E i \in 1..Len(sitemap.urls) : sitemap.urls[i].loc \in Pages
    /\ \E i \in 1..Len(sitemap.urls) : HasDate(sitemap.urls[i].loc)

(***************************************************************************)
(* Properties of sanitize_filename (checked under SanitizeSpec)            *)
(***************************************************************************)
\* C24: for every input the returned name holds none of < > : " / \ | ? *,
\* neither starts nor ends with a hyphen, holds no two hyphens in a row and
\* is at most 100 characters long.
SanitizedNameClean ==
    fname.pc = "returned" =>
        LET out == fname.sanitized
        IN  /\ \A i \in 1..Len(out) : out[i] \notin InvalidChars
            /\ out # <<>> => (out[1] # "-" /\ out[Len(out)] # "-")
            /\ \A i \in 1..(Len(out) - 1) : ~(out[i] = "-" /\ out[i + 1] = "-")
            /\ Len(out) <= 100

(***************************************************************************)
(* Properties of create_image (checked under ImageSpec)                    *)
(***************************************************************************)
Completion(frame) ==
    /\ frame.type = "executing"
    /\ frame.node # "9"
    /\ frame.prompt_id = OurJob
LastFrame == render.frames[Len(render.frames)]

\* C34: create_image leaves its wait loop for the fetch only on an
\* 'executing' event without node for the job it queued; every other event
\* and every binary frame leaves it waiting; when the stream fails first it
\* returns None and fetches nothing.
FetchOnlyAfterCompletion ==
    /\ (render.pc = "fetch" \/ render.fetched) =>
            /\ render.frames # <<>>
            /\ Completion(LastFrame)
    /\ \A i \in 1..(Len(render.frames) - 1) :
            /\ ~Completion(render.frames[i])
            /\ render.frames[i] \in Events \cup {Binary}
    /\ (render.frames # <<>> /\ LastFrame \in Events \cup {Binary} /\ ~Completion(LastFrame)) =>
            render.pc = "waiting"
    /\ (render.frames # <<>> /\ LastFrame \in {NotJson, RecvRaised}) =>
            /\ render.pc = "returned"
            /\ render.result = "none"
            /\ ~render.fetched
\* C34 witness: the call has ignored the completion event of another job
\* and fetched its output after the completion event of its own.
FetchedAfterForeignCompletion ==
    /\ render.fetched /\ render.result = "file"
    /\ Len(render.frames) = 2
    /\ render.frames[1] = [type |-> "executing", node |-> NoNode, prompt_id |-> OtherJob]

(***************************************************************************)
(* Properties of run_git_command (checked under GitCommandSpec)            *)
(***************************************************************************)
FailedBefore(outs, n) == \A i \in 1..(n - 1) : outs[i] # 0

\* C36: a command called without retry is attempted exactly once; fetch and
\* push, the only commands called with retry, are attempted at most 3
\* times, with a wait of 2 s before the second and of 4 s before the third
\* attempt; the call returns success at the first attempt that exits with
\* status 0 and failure after the last attempt has failed.
GitRetryPolicy ==
    git.pc = "returned" =>
        LET res == git.res
            limit == IF git.command \in {"fetch", "push"} THEN 3 ELSE 1
        IN  /\ res.attempts \in 1..limit
            /\ res.slept = SubSeq(<<2, 4>>, 1, res.attempts - 1)
            /\ FailedBefore(git.outs, res.attempts)
            /\ res.ok <=> git.outs[res.attempts] = 0
            /\ ~res.ok => res.attempts = limit
\* C36 witness: a push has succeeded at its third attempt.
PushSucceededAtThirdAttempt ==
    /\ git.pc = "returned" /\ git.command = "push"
    /\ git.res.ok /\ git.res.attempts = 3
    /\ git.res.slept = <<2, 4>>

====
